---- MODULE Spec2Model ----
(***************************************************************************)
(* Model of the telemetry log of backend/server.js: the write queue        *)
(* (pendingWrites, isWriting, processNextWrite), readTrackingData with its *)
(* corruption recovery, writeTrackingData, the three endpoints that use    *)
(* them (/api/track, /api/send-tracking-data, /api/clear-tracking-data)    *)
(* and processEmailSending with the report it mails.                       *)
(*                                                                         *)
(* One action is one macrotask of the Node event loop: the completion of   *)
(* one asynchronous call together with every continuation that runs        *)
(* before control returns to the loop.                                     *)
(*                                                                         *)
(* File content is a sequence of tokens.  "nl" is a line break with its    *)
(* indentation, a token ending in ":" is an object key with its colon,     *)
(* the brackets, braces and the comma stand for themselves, and every      *)
(* other token is a complete scalar literal.                               *)
(***************************************************************************)
EXTENDS Integers, Sequences, FiniteSets, TLC

\* ------------------------------------------------------------------ bounds
NReq == 2
MaxFaults == 1
MaxTime == 1
MaxLog == 12
MaxEvents == 5

\* the request slots; a run admits `quota` of them
Reqs == 1..(NReq + 1)
EventTypes == {"click", "view"}

\* ------------------------------------------------------------ JSON values
Arr(s) == <<"arr", s>>
Obj(m) == <<"obj", m>>
Lit(t) == <<"lit", t>>

IsArray(v) == v[1] = "arr"
IsObject(v) == v[1] = "obj"

KeyToks == {"type:", "timestamp:", "data:", "id:", "a:", "b:"}
PunctToks == {"[", "]", "{", "}", ","}
IsWs(t) == t = "nl"
IsKey(t) == t \in KeyToks
IsLit(t) == t \notin KeyToks \cup PunctToks \cup {"nl", "#"}

\* String.prototype.trim() leaves nothing
TrimIsEmpty(toks) == \A i \in 1..Len(toks) : IsWs(toks[i])

RECURSIVE SkipWs(_, _)
SkipWs(toks, i) ==
  IF i <= Len(toks) /\ IsWs(toks[i]) THEN SkipWs(toks, i + 1) ELSE i

ParseFail == [ok |-> FALSE, val |-> Lit("undefined"), next |-> 0]

RECURSIVE ParseValue(_, _)
RECURSIVE ParseElems(_, _, _)
RECURSIVE ParseMembers(_, _, _)

ParseValue(toks, i) ==
  LET j == SkipWs(toks, i) IN
  IF j > Len(toks) THEN ParseFail
  ELSE IF toks[j] = "[" THEN
    LET k == SkipWs(toks, j + 1) IN
    IF k <= Len(toks) /\ toks[k] = "]"
    THEN [ok |-> TRUE, val |-> Arr(<<>>), next |-> k + 1]
    ELSE ParseElems(toks, j + 1, <<>>)
  ELSE IF toks[j] = "{" THEN
    LET k == SkipWs(toks, j + 1) IN
    IF k <= Len(toks) /\ toks[k] = "}"
    THEN [ok |-> TRUE, val |-> Obj(<<>>), next |-> k + 1]
    ELSE ParseMembers(toks, j + 1, <<>>)
  ELSE IF IsLit(toks[j]) THEN [ok |-> TRUE, val |-> Lit(toks[j]), next |-> j + 1]
  ELSE ParseFail

ParseElems(toks, i, acc) ==
  LET r == ParseValue(toks, i) IN
  IF ~r.ok THEN ParseFail
  ELSE LET k == SkipWs(toks, r.next) IN
    IF k > Len(toks) THEN ParseFail
    ELSE IF toks[k] = "]"
      THEN [ok |-> TRUE, val |-> Arr(Append(acc, r.val)), next |-> k + 1]
    ELSE IF toks[k] = "," THEN ParseElems(toks, k + 1, Append(acc, r.val))
    ELSE ParseFail

ParseMembers(toks, i, acc) ==
  LET j == SkipWs(toks, i) IN
  IF j > Len(toks) \/ ~IsKey(toks[j]) THEN ParseFail
  ELSE LET r == ParseValue(toks, j + 1) IN
    IF ~r.ok THEN ParseFail
    ELSE LET k == SkipWs(toks, r.next) IN
      IF k > Len(toks) THEN ParseFail
      ELSE IF toks[k] = "}"
        THEN [ok |-> TRUE, val |-> Obj(Append(acc, <<toks[j], r.val>>)), next |-> k + 1]
      ELSE IF toks[k] = "," THEN ParseMembers(toks, k + 1, Append(acc, <<toks[j], r.val>>))
      ELSE ParseFail

\* JSON.parse(text): ok = FALSE stands for the SyntaxError it throws
JSONparse(toks) ==
  LET r == ParseValue(toks, 1) IN
  IF r.ok /\ SkipWs(toks, r.next) > Len(toks)
  THEN [ok |-> TRUE, val |-> r.val]
  ELSE [ok |-> FALSE, val |-> Lit("undefined")]

RECURSIVE Stringify(_)
RECURSIVE StringifyElems(_)
RECURSIVE StringifyMembers(_)

\* JSON.stringify(value, null, 2)
Stringify(v) ==
  IF v[1] = "arr" THEN
    IF v[2] = <<>> THEN <<"[", "]">>
    ELSE <<"[">> \o StringifyElems(v[2]) \o <<"nl", "]">>
  ELSE IF v[1] = "obj" THEN
    IF v[2] = <<>> THEN <<"{", "}">>
    ELSE <<"{">> \o StringifyMembers(v[2]) \o <<"nl", "}">>
  ELSE <<v[2]>>

StringifyElems(s) ==
  IF Len(s) = 1 THEN <<"nl">> \o Stringify(s[1])
  ELSE <<"nl">> \o Stringify(s[1]) \o <<",">> \o StringifyElems(Tail(s))

StringifyMembers(m) ==
  IF Len(m) = 1 THEN <<"nl", m[1][1]>> \o Stringify(m[1][2])
  ELSE <<"nl", m[1][1]>> \o Stringify(m[1][2]) \o <<",">> \o StringifyMembers(Tail(m))

\* ------------------------------------------------------------ file writes
\* fs.writeFile opens with O_TRUNC and then writes its text from offset 0
\* without truncating again: what another writer put beyond the end of the
\* text since the open stays in the file
WriteAtStart(old, text) == text \o SubSeq(old, Len(text) + 1, Len(old))

\* ------------------------------------------- string helpers of the recovery
\* data.startsWith('[')
StartsWithBracket(toks) == Len(toks) >= 1 /\ toks[1] = "["

\* positions p where the two characters "}]" start
CloseAt(toks) == {p \in 1..(Len(toks) - 1) : toks[p] = "}" /\ toks[p + 1] = "]"}

\* data.includes('}]')
IncludesClose(toks) == CloseAt(toks) # {}

\* data.lastIndexOf('}]') + 2, as a count of tokens
LastValidPos(toks) == (CHOOSE p \in CloseAt(toks) : \A q \in CloseAt(toks) : q <= p) + 1

\* data.match(/\{.*?\}/g): leftmost, shortest, non-overlapping, within one line
RECURSIVE BraceMatches(_, _)
BraceMatches(toks, p) ==
  LET starts == {i \in p..Len(toks) :
                   /\ toks[i] = "{"
                   /\ \E j \in (i + 1)..Len(toks) :
                        /\ toks[j] = "}"
                        /\ \A k \in (i + 1)..(j - 1) : toks[k] # "nl"}
  IN IF starts = {} THEN <<>>
     ELSE LET i == CHOOSE x \in starts : \A y \in starts : x <= y
              j == CHOOSE x \in (i + 1)..Len(toks) :
                     /\ toks[x] = "}"
                     /\ \A y \in (i + 1)..(x - 1) : toks[y] # "}"
          IN <<SubSeq(toks, i, j)>> \o BraceMatches(toks, j + 1)

\* recoveredData of readTrackingData, computed from the text that failed to parse
RECURSIVE ParsedObjects(_)
ParsedObjects(ms) ==
  IF ms = <<>> THEN <<>>
  ELSE LET e == JSONparse(Head(ms)) IN
       (IF e.ok /\ IsObject(e.val) THEN <<e.val>> ELSE <<>>) \o ParsedObjects(Tail(ms))

RecoveredData(data) ==
  IF StartsWithBracket(data) /\ IncludesClose(data)
  THEN LET possiblyValidJson == SubSeq(data, 1, LastValidPos(data))
           p == JSONparse(possiblyValidJson)
       IN IF p.ok THEN p.val ELSE Arr(ParsedObjects(BraceMatches(data, 1)))
  ELSE Arr(<<>>)

\* ------------------------------------------------------------------ state
VARIABLES
  fileExists,     \* tracking_data.json exists
  file,           \* its content
  backups,        \* sibling files: path -> content
  isWriting,      \* the write lock
  pendingWrites,  \* queued write closures, each named by the request that made it
  enqOrder,       \* history: the requests in the order their writes were enqueued
  pc,             \* where each request's handler is suspended
  kind,           \* "track", "clear" or "send"
  eventType,      \* req.params.eventType
  beacon,         \* isBeaconRequest
  rawData,        \* `data` of readTrackingData
  returned,       \* <<value>> once readTrackingData has returned it to the request
  backupPath,     \* the clock value in `backupPath` of the request
  trackingData,   \* `trackingData` of the handler; also the closure's `data`
  resp,           \* HTTP status sent, 0 while unanswered
  result,         \* outcome of processEmailSending
  sentMail,       \* the mails that the transport accepted for the request
  credentials,    \* the variables among EMAIL_USER, EMAIL_PASS, EMAIL_RECIPIENT that are set
  faults,         \* failures of file-system and mail calls so far
  solo,           \* history: <<file at arrival>> while the request has run alone
  afterSend,      \* history: the clear arrived after a dispatch reported success
  initialFile,    \* history: <<content>> of the file at start, <<>> if it was absent
  now,            \* Date.now()
  quota,          \* how many requests the run admits
  client          \* the browser tab that runs App

fsVars == <<fileExists, file, backups>>
qVars == <<isWriting, pendingWrites, enqOrder>>
reqVars == <<pc, kind, eventType, beacon, rawData, returned, backupPath, trackingData, resp,
             result, sentMail>>
envVars == <<credentials, faults, now, quota>>
histVars == <<solo, afterSend, initialFile>>
vars == <<fileExists, file, backups, isWriting, pendingWrites, enqOrder, pc, kind,
          eventType, beacon, rawData, returned, backupPath, trackingData, resp, result,
          sentMail,
          credentials, faults, solo, afterSend, initialFile, now, quota, client>>

\* process.env as far as the mail configuration goes
Credentials == {"EMAIL_USER", "EMAIL_PASS", "EMAIL_RECIPIENT"}

\* a configuration check that looks at EMAIL_USER only
Configured_UserOnly == "EMAIL_USER" \in credentials

\* process.env.EMAIL_USER && process.env.EMAIL_PASS && process.env.EMAIL_RECIPIENT
Configured == \A c \in Credentials : c \in credentials

Undefined == Lit("undefined")
EmptyArray == Arr(<<>>)

\* the record pushed by /api/track; userAgent and ip are request metadata
\* carried like data and are folded into it
Record(r, type, time) ==
  Obj(<< <<"type:", Lit(type)>>,
         <<"timestamp:", Lit(ToString(time))>>,
         <<"data:", Obj(<< <<"id:", Lit(ToString(r))>> >>)>> >>)

\* contents tracking_data.json may hold when the server starts
PriorRecord == Obj(<< <<"type:", Lit("view")>>, <<"data:", Obj(<<>>)>> >>)
TruncatedExample == <<"[", "{", "a:", "1", "}", ",", "{", "b">>
Garbage == <<"#">>
InitFiles ==
  { Stringify(EmptyArray),
    Stringify(Arr(<<PriorRecord>>)),
    TruncatedExample,
    Garbage,
    <<"{", "}">> }

\* the tab after App has mounted: nobody signed in, the document visible,
\* the user active, no request in flight
ClientStart ==
  [ user     |-> FALSE,
    hidden   |-> FALSE,
    active   |-> TRUE,
    inflight |-> <<>>,
    failed   |-> <<>>,
    beacons  |-> <<>>,
    events   |-> 0 ]

Start(admitted) ==
  /\ quota = admitted
  /\ fileExists \in BOOLEAN
  /\ file \in (IF fileExists THEN InitFiles ELSE {<<>>})
  /\ backups = <<>>
  /\ isWriting = FALSE
  /\ pendingWrites = <<>>
  /\ enqOrder = <<>>
  /\ pc = [r \in Reqs |-> "idle"]
  /\ kind = [r \in Reqs |-> "none"]
  /\ eventType = [r \in Reqs |-> "none"]
  /\ beacon = [r \in Reqs |-> FALSE]
  /\ rawData = [r \in Reqs |-> <<>>]
  /\ returned = [r \in Reqs |-> <<>>]
  /\ backupPath = [r \in Reqs |-> 0]
  /\ trackingData = [r \in Reqs |-> Undefined]
  /\ resp = [r \in Reqs |-> 0]
  /\ result = [r \in Reqs |-> "none"]
  /\ sentMail = [r \in Reqs |-> <<>>]
  /\ credentials \in {Credentials, Credentials \ {"EMAIL_PASS"}}
  /\ faults = 0
  /\ solo = [r \in Reqs |-> <<>>]
  /\ afterSend = [r \in Reqs |-> FALSE]
  /\ initialFile = (IF fileExists THEN <<file>> ELSE <<>>)
  /\ now = 0
  /\ client = ClientStart

Init == Start(NReq)
InitWide == Start(NReq + 1)

\* ------------------------------------------------------------ write queue
\* processNextWrite() without the isWriting test
ProcessNextWrite_NoLock(queue, writing) ==
  IF Len(queue) = 0
  THEN [queue |-> queue, writing |-> writing, run |-> {}]
  ELSE [queue |-> Tail(queue), writing |-> TRUE, run |-> {Head(queue)}]

\* processNextWrite(): the queue and lock it leaves and the closures it starts
ProcessNextWrite(queue, writing) ==
  IF Len(queue) = 0 \/ writing
  THEN [queue |-> queue, writing |-> writing, run |-> {}]
  ELSE [queue |-> Tail(queue), writing |-> TRUE, run |-> {Head(queue)}]

\* a started closure has called fs.writeFile
Started(pcs, run) == [x \in Reqs |-> IF x \in run THEN "writeIssued" ELSE pcs[x]]

\* a writeTrackingData that pushes the closure and does not try the queue
WriteTrackingData_PushOnly(r, data, pcs) ==
  /\ pendingWrites' = Append(pendingWrites, r)
  /\ isWriting' = isWriting
  /\ enqOrder' = Append(enqOrder, r)
  /\ trackingData' = [trackingData EXCEPT ![r] = data]
  /\ pc' = [pcs EXCEPT ![r] = "queued"]

\* writeTrackingData(data) called by request r: push the closure, try the queue
WriteTrackingData(r, data, pcs) ==
  LET p == ProcessNextWrite(Append(pendingWrites, r), isWriting) IN
  /\ pendingWrites' = p.queue
  /\ isWriting' = p.writing
  /\ enqOrder' = Append(enqOrder, r)
  /\ trackingData' = [trackingData EXCEPT ![r] = data]
  /\ pc' = Started([pcs EXCEPT ![r] = "queued"], p.run)

\* a finally block that releases the lock but does not call processNextWrite
FinallyNext_NoAdvance(r, pcs) ==
  /\ pendingWrites' = pendingWrites
  /\ isWriting' = FALSE
  /\ pc' = pcs

\* the finally block of processNextWrite after the closure of r has settled
FinallyNext(r, pcs) ==
  LET p == ProcessNextWrite(pendingWrites, FALSE) IN
  /\ pendingWrites' = p.queue
  /\ isWriting' = p.writing
  /\ pc' = Started(pcs, p.run)

\* ------------------------------------------------- handler continuations
\* processEmailSending returns or throws; the endpoint answers unless it
\* already answered 202 to a beacon
DispatchEnds(r, outcome) ==
  /\ result' = [result EXCEPT ![r] = outcome]
  /\ resp' = [resp EXCEPT ![r] =
       IF beacon[r] THEN 202 ELSE IF outcome = "threw" THEN 500 ELSE 200]
  /\ pc' = [pc EXCEPT ![r] = "done"]

\* /api/track with unshift in place of push
TrackContinues_Unshift(r, v) ==
  IF IsArray(v)
  THEN /\ WriteTrackingData(r, Arr(<<Record(r, eventType[r], now)>> \o v[2]), pc)
       /\ UNCHANGED <<resp, result>>
  ELSE /\ trackingData' = [trackingData EXCEPT ![r] = v]
       /\ pc' = [pc EXCEPT ![r] = "done"]
       /\ resp' = [resp EXCEPT ![r] = 500]
       /\ UNCHANGED <<qVars, result>>

\* /api/track after `await readTrackingData()` gave v: push, then write;
\* push on a value that is not an array throws and the catch answers 500
TrackContinues(r, v) ==
  IF IsArray(v)
  THEN /\ WriteTrackingData(r, Arr(Append(v[2], Record(r, eventType[r], now))), pc)
       /\ UNCHANGED <<resp, result>>
  ELSE /\ trackingData' = [trackingData EXCEPT ![r] = v]
       /\ pc' = [pc EXCEPT ![r] = "done"]
       /\ resp' = [resp EXCEPT ![r] = 500]
       /\ UNCHANGED <<qVars, result>>

\* processEmailSending after `await readTrackingData()` gave v
DispatchContinues(r, v) ==
  /\ trackingData' = [trackingData EXCEPT ![r] = v]
  /\ UNCHANGED qVars
  /\ IF ~IsArray(v)
     THEN \* .length or .forEach throws: the catch block logs, then rethrows
          /\ pc' = [pc EXCEPT ![r] = "logFail"]
          /\ UNCHANGED <<resp, result>>
     ELSE IF Len(v[2]) = 0
     THEN DispatchEnds(r, "empty")
     ELSE /\ pc' = [pc EXCEPT ![r] = "verify"]
          /\ UNCHANGED <<resp, result>>

\* readTrackingData() of request r returns v to its caller
ReadReturns(r, v) ==
  /\ rawData' = [rawData EXCEPT ![r] = <<>>]
  /\ returned' = [returned EXCEPT ![r] = <<v>>]
  /\ backupPath' = [backupPath EXCEPT ![r] = 0]
  /\ IF kind[r] = "track" THEN TrackContinues(r, v) ELSE DispatchContinues(r, v)

\* the object that processEmailSending returned to request r
ResultValue(r) ==
  CASE result[r] = "config" ->
         [success |-> FALSE,
          message |-> "Email configuration is incomplete. Check server logs for details."]
    [] result[r] = "empty" ->
         [success |-> TRUE, message |-> "No tracking data to send"]
    [] result[r] = "sent" ->
         [success |-> TRUE, eventsCount |-> Len(trackingData[r][2]), messageId |-> "messageId"]

\* the JSON body with which /api/send-tracking-data answered request r (a
\* 202 has none); a member whose value is undefined is left out by res.json
SendResponseBody(r) ==
  IF resp[r] = 200 THEN
    IF "eventsCount" \in DOMAIN ResultValue(r)
    THEN [success |-> TRUE, message |-> "Tracking data sent via email",
          eventsCount |-> ResultValue(r).eventsCount]
    ELSE [success |-> TRUE, message |-> "Tracking data sent via email"]
  ELSE IF resp[r] = 500 THEN [error |-> "Failed to send tracking data email"]
  ELSE <<>>

\* a rejection inside readTrackingData that escapes to its caller: /api/track
\* answers 500, processEmailSending runs its catch block
ReadFails_Rethrow(r) ==
  /\ rawData' = [rawData EXCEPT ![r] = <<>>]
  /\ backupPath' = [backupPath EXCEPT ![r] = 0]
  /\ UNCHANGED <<returned, trackingData, qVars, result>>
  /\ IF kind[r] = "track"
     THEN /\ pc' = [pc EXCEPT ![r] = "done"]
          /\ resp' = [resp EXCEPT ![r] = 500]
     ELSE /\ pc' = [pc EXCEPT ![r] = "logFail"]
          /\ UNCHANGED resp

\* the outer catch of readTrackingData: log the error, return []
ReadFails(r) == ReadReturns(r, EmptyArray)

\* a file-system or mail call fails
Fault == faults < MaxFaults /\ faults' = faults + 1
NoFault == faults' = faults

\* --------------------------------------------------------------- requests
InProgress(r) == pc[r] \notin {"idle", "done"}

\* request r arrives: it runs alone if nothing else is in progress, and every
\* request in progress stops running alone
Arrives(r) ==
  /\ pc[r] = "idle"
  /\ r <= quota
  /\ \A q \in Reqs : q < r => pc[q] # "idle"
  /\ solo' = [q \in Reqs |->
       IF q = r /\ \A x \in Reqs : ~InProgress(x)
       THEN <<IF fileExists THEN file ELSE <<"absent">> >>
       ELSE <<>>]
  /\ UNCHANGED <<initialFile, client>>

\* POST /api/track/:eventType up to `await fs.access`
TrackRequest(r, type) ==
  /\ Arrives(r)
  /\ UNCHANGED afterSend
  /\ kind' = [kind EXCEPT ![r] = "track"]
  /\ eventType' = [eventType EXCEPT ![r] = type]
  /\ pc' = [pc EXCEPT ![r] = "access"]
  /\ UNCHANGED <<fsVars, qVars, beacon, rawData, returned, backupPath, trackingData, resp,
                 result, sentMail, envVars>>

\* POST /api/clear-tracking-data up to `await writeTrackingData([])`
ClearRequest(r) ==
  /\ Arrives(r)
  /\ afterSend' = [afterSend EXCEPT ![r] =
       \E s \in Reqs : kind[s] = "send" /\ pc[s] = "done" /\ result[s] = "sent"]
  /\ kind' = [kind EXCEPT ![r] = "clear"]
  /\ WriteTrackingData(r, EmptyArray, pc)
  /\ UNCHANGED <<fsVars, eventType, beacon, rawData, returned, backupPath, resp, result,
                 sentMail, envVars>>

\* POST /api/send-tracking-data with a body that names userEmail, up to the
\* first await of processEmailSending
SendRequest(r, isBeaconRequest) ==
  /\ Arrives(r)
  /\ UNCHANGED afterSend
  /\ kind' = [kind EXCEPT ![r] = "send"]
  /\ beacon' = [beacon EXCEPT ![r] = isBeaconRequest]
  /\ IF ~Configured
     THEN /\ result' = [result EXCEPT ![r] = "config"]
          /\ resp' = [resp EXCEPT ![r] = IF isBeaconRequest THEN 202 ELSE 200]
          /\ pc' = [pc EXCEPT ![r] = "done"]
     ELSE /\ resp' = [resp EXCEPT ![r] = IF isBeaconRequest THEN 202 ELSE 0]
          /\ pc' = [pc EXCEPT ![r] = "access"]
          /\ UNCHANGED result
  /\ UNCHANGED <<fsVars, qVars, eventType, rawData, returned, backupPath, trackingData,
                 sentMail, envVars>>

\* -------------------------------------------------------- readTrackingData
\* fs.access settles: any rejection counts as "the file does not exist"
AccessDone(r) ==
  /\ pc[r] = "access"
  /\ \/ /\ fileExists
        /\ NoFault
        /\ pc' = [pc EXCEPT ![r] = "readFile"]
     \/ /\ ~fileExists
        /\ NoFault
        /\ pc' = [pc EXCEPT ![r] = "create"]
     \/ /\ fileExists
        /\ Fault
        /\ pc' = [pc EXCEPT ![r] = "create"]
  /\ UNCHANGED <<fsVars, qVars, kind, eventType, beacon, rawData, returned, backupPath,
                 trackingData, resp, result, sentMail, credentials, now, quota>>
  /\ UNCHANGED <<histVars, client>>

\* fs.writeFile(trackingDataPath, '[]') opens the file, truncating it;
\* a rejection reaches the outer catch, which returns []
CreateOpen(r) ==
  /\ pc[r] = "create"
  /\ \/ /\ NoFault
        /\ fileExists' = TRUE
        /\ file' = <<>>
        /\ pc' = [pc EXCEPT ![r] = "creating"]
        /\ UNCHANGED <<backups, qVars, rawData, returned, backupPath, trackingData, resp, result>>
     \/ /\ Fault
        /\ ReadFails(r)
        /\ UNCHANGED fsVars
  /\ UNCHANGED <<kind, eventType, beacon, backupPath, sentMail, credentials, now, quota>>
  /\ UNCHANGED <<histVars, client>>

\* a creation that writes '{}'
CreateDone_Object(r) ==
  /\ pc[r] = "creating"
  /\ file' = WriteAtStart(file, <<"{", "}">>)
  /\ ReadReturns(r, EmptyArray)
  /\ UNCHANGED <<fileExists, backups, kind, eventType, beacon, backupPath, sentMail,
                 envVars>>
  /\ UNCHANGED <<histVars, client>>

\* ... and finishes: readTrackingData returns []
CreateDone(r) ==
  /\ pc[r] = "creating"
  /\ file' = WriteAtStart(file, <<"[", "]">>)
  /\ ReadReturns(r, EmptyArray)
  /\ UNCHANGED <<fileExists, backups, kind, eventType, beacon, backupPath, sentMail,
                 envVars>>
  /\ UNCHANGED <<histVars, client>>

\* fs.readFile settles, then trim, JSON.parse and the start of the recovery
ReadFileDone(r) ==
  /\ pc[r] = "readFile"
  /\ \/ /\ Fault
        /\ ReadFails(r)
     \/ /\ NoFault
        /\ IF TrimIsEmpty(file) THEN ReadReturns(r, EmptyArray)
           ELSE IF JSONparse(file).ok THEN ReadReturns(r, JSONparse(file).val)
           ELSE /\ rawData' = [rawData EXCEPT ![r] = file]
                /\ backupPath' = [backupPath EXCEPT ![r] = now]
                /\ pc' = [pc EXCEPT ![r] = "backup"]
                /\ UNCHANGED <<qVars, returned, trackingData, resp, result>>
  /\ UNCHANGED <<fsVars, kind, eventType, beacon, sentMail, credentials, now, quota>>
  /\ UNCHANGED <<histVars, client>>

\* fs.copyFile(trackingDataPath, backupPath) settles, then the salvage is
\* computed and fs.writeFile of its result is called
BackupDone(r) ==
  /\ pc[r] = "backup"
  /\ \/ /\ NoFault
        /\ backups' = (<<"backup", backupPath[r]>> :> file) @@ backups
        /\ pc' = [pc EXCEPT ![r] = "recover"]
        /\ UNCHANGED <<qVars, rawData, returned, backupPath, trackingData, resp, result>>
     \/ /\ Fault
        /\ ReadFails(r)
        /\ UNCHANGED backups
  /\ UNCHANGED <<fileExists, file, kind, eventType, beacon, sentMail, credentials, now, quota>>
  /\ UNCHANGED <<histVars, client>>

\* the value the recovery returns, and the text it writes back
Recovered(r) == RecoveredData(rawData[r])

\* a recovery that leaves the text it read in the file
RecoveryText_Keep(r) == rawData[r]

RecoveryText(r) ==
  IF Len(Recovered(r)[2]) > 0 THEN Stringify(Recovered(r)) ELSE <<"[", "]">>

\* the recovery's fs.writeFile opens the file, truncating it
RecoverOpen(r) ==
  /\ pc[r] = "recover"
  /\ \/ /\ NoFault
        /\ file' = <<>>
        /\ pc' = [pc EXCEPT ![r] = "recovering"]
        /\ UNCHANGED <<fileExists, backups, qVars, rawData, returned, backupPath, trackingData,
                       resp, result>>
     \/ /\ Fault
        /\ ReadFails(r)
        /\ UNCHANGED fsVars
  /\ UNCHANGED <<kind, eventType, beacon, sentMail, credentials, now, quota>>
  /\ UNCHANGED <<histVars, client>>

\* ... and finishes: readTrackingData returns recoveredData
RecoverDone(r) ==
  /\ pc[r] = "recovering"
  /\ file' = WriteAtStart(file, RecoveryText(r))
  /\ ReadReturns(r, Recovered(r))
  /\ UNCHANGED <<fileExists, backups, kind, eventType, beacon, sentMail, envVars>>
  /\ UNCHANGED <<histVars, client>>

\* ------------------------------------------------------ the queued closure
\* an endpoint that answers 200 however the closure's promise settled
WriteSettles_AlwaysOk(r, status) ==
  /\ resp' = [resp EXCEPT ![r] = 200]
  /\ FinallyNext(r, [pc EXCEPT ![r] = "done"])
  /\ UNCHANGED <<enqOrder, kind, eventType, beacon, rawData, returned, backupPath, trackingData,
                 result, sentMail, credentials, now, quota>>

\* the closure's promise settles, the awaiting endpoint answers, and the
\* finally block of processNextWrite runs
WriteSettles(r, status) ==
  /\ resp' = [resp EXCEPT ![r] = status]
  /\ FinallyNext(r, [pc EXCEPT ![r] = "done"])
  /\ UNCHANGED <<enqOrder, kind, eventType, beacon, rawData, returned, backupPath, trackingData,
                 result, sentMail, credentials, now, quota>>

\* Array.isArray(data) ? data : []
TrackingArray(data) == IF IsArray(data) THEN data ELSE EmptyArray

\* the closure's fs.writeFile opens the file, truncating it; a rejection is
\* passed to reject(error)
QueuedWriteOpen(r) ==
  /\ pc[r] = "writeIssued"
  /\ \/ /\ NoFault
        /\ fileExists' = TRUE
        /\ file' = <<>>
        /\ pc' = [pc EXCEPT ![r] = "writeOpened"]
        /\ UNCHANGED <<backups, qVars, kind, eventType, beacon, rawData, returned, backupPath,
                       trackingData, resp, result, sentMail, credentials, now, quota>>
     \/ /\ Fault
        /\ WriteSettles(r, 500)
        /\ UNCHANGED fsVars
  /\ UNCHANGED <<histVars, client>>

\* ... and finishes: resolve(true)
QueuedWriteDone(r) ==
  /\ pc[r] = "writeOpened"
  /\ file' = WriteAtStart(file, Stringify(TrackingArray(trackingData[r])))
  /\ WriteSettles(r, 200)
  /\ UNCHANGED <<fileExists, backups, faults>>
  /\ UNCHANGED <<histVars, client>>

\* ----------------------------------------------------- processEmailSending
\* names that the object literal {} inherits from Object.prototype: a lookup
\* of such a key on an object that has no own property of that name gives
\* the inherited function
InheritedKeys == {"constructor"}

\* event.type as a property key
TypeKey(event) ==
  IF IsObject(event) /\ \E i \in 1..Len(event[2]) : event[2][i][1] = "type:"
  THEN LET i == CHOOSE x \in 1..Len(event[2]) :
                  /\ event[2][x][1] = "type:"
                  /\ \A y \in (x + 1)..Len(event[2]) : event[2][y][1] # "type:"
       IN IF event[2][i][2][1] = "lit" THEN event[2][i][2][2] ELSE "[object Object]"
  ELSE "undefined"

\* eventTypes[key] = (eventTypes[key] || 0) + 1 on the entries <<key, n, isNumber>>
\* of eventTypes, in insertion order: an own number is incremented, a missing
\* key starts at 1, and anything else (an inherited function, a string) is
\* concatenated with "1" and stays a string
CountOne(entries, key) ==
  IF \E i \in 1..Len(entries) : entries[i][1] = key
  THEN [i \in 1..Len(entries) |->
          IF entries[i][1] = key
          THEN <<key, entries[i][2] + 1, entries[i][3]>>
          ELSE entries[i]]
  ELSE Append(entries, <<key, 1, key \notin InheritedKeys>>)

\* trackingData.forEach(event => ...)
RECURSIVE CountTypes(_, _)
CountTypes(events, entries) ==
  IF events = <<>> THEN entries
  ELSE CountTypes(Tail(events), CountOne(entries, TypeKey(Head(events))))

\* the length of the preview
PreviewLen == 10

\* trackingData.slice(-10)
RecentEvents(events) ==
  IF Len(events) <= PreviewLen THEN events
  ELSE SubSeq(events, Len(events) - PreviewLen + 1, Len(events))

\* the summary in htmlContent and the attachment of mailOptions
MailOptions(data) ==
  [ eventsCount  |-> Len(data[2]),
    eventTypes   |-> CountTypes(data[2], <<>>),
    recentEvents |-> RecentEvents(data[2]),
    attachment   |-> Stringify(data) ]

\* transporter.verify() settles
VerifyDone(r) ==
  /\ pc[r] = "verify"
  /\ \/ NoFault /\ pc' = [pc EXCEPT ![r] = "sendMail"]
     \/ Fault /\ pc' = [pc EXCEPT ![r] = "logFail"]
  /\ UNCHANGED <<fsVars, qVars, kind, eventType, beacon, rawData, returned, backupPath,
                 trackingData, resp, result, sentMail, credentials, now, quota>>
  /\ UNCHANGED <<histVars, client>>

\* transporter.sendMail(mailOptions) settles
SendMailDone(r) ==
  /\ pc[r] = "sendMail"
  /\ \/ /\ NoFault
        /\ sentMail' = [sentMail EXCEPT ![r] = Append(@, MailOptions(trackingData[r]))]
        /\ pc' = [pc EXCEPT ![r] = "logOk"]
     \/ /\ Fault
        /\ pc' = [pc EXCEPT ![r] = "logFail"]
        /\ UNCHANGED sentMail
  /\ UNCHANGED <<fsVars, qVars, kind, eventType, beacon, rawData, returned, backupPath,
                 trackingData, resp, result, credentials, now, quota>>
  /\ UNCHANGED <<histVars, client>>

\* the success entry is appended to email_logs.json (its errors are swallowed),
\* then backupPath is built and fs.copyFile is called
LogOkDone(r) ==
  /\ pc[r] = "logOk"
  /\ backupPath' = [backupPath EXCEPT ![r] = now]
  /\ pc' = [pc EXCEPT ![r] = "copyLog"]
  /\ UNCHANGED <<fsVars, qVars, kind, eventType, beacon, rawData, returned, trackingData, resp,
                 result, sentMail, envVars>>
  /\ UNCHANGED <<histVars, client>>

\* fs.copyFile(trackingDataPath, backupPath) settles; a rejection is caught by
\* the catch block of processEmailSending
DispatchBackupDone(r) ==
  /\ pc[r] = "copyLog"
  /\ \/ /\ NoFault
        /\ backups' = (<<"sent", backupPath[r]>> :> file) @@ backups
        /\ DispatchEnds(r, "sent")
     \/ /\ Fault
        /\ pc' = [pc EXCEPT ![r] = "logFail"]
        /\ UNCHANGED <<backups, resp, result>>
  /\ UNCHANGED <<fileExists, file, qVars, kind, eventType, beacon, rawData, returned, backupPath,
                 trackingData, sentMail, credentials, now, quota>>
  /\ UNCHANGED <<histVars, client>>

\* a catch block that returns a failure object in place of rethrowing
LogFailDone_Swallow(r) ==
  /\ pc[r] = "logFail"
  /\ DispatchEnds(r, "config")
  /\ UNCHANGED <<fsVars, qVars, kind, eventType, beacon, rawData, returned, backupPath,
                 trackingData, sentMail, envVars>>
  /\ UNCHANGED <<histVars, client>>

\* the failure entry is appended to email_logs.json, then `throw emailError`
LogFailDone(r) ==
  /\ pc[r] = "logFail"
  /\ DispatchEnds(r, "threw")
  /\ UNCHANGED <<fsVars, qVars, kind, eventType, beacon, rawData, returned, backupPath,
                 trackingData, sentMail, envVars>>
  /\ UNCHANGED <<histVars, client>>

\* the clock advances
Tick ==
  /\ now < MaxTime
  /\ now' = now + 1
  /\ UNCHANGED <<fsVars, qVars, reqVars, credentials, faults, quota, histVars, client>>

Next ==
  \/ \E r \in Reqs, type \in EventTypes : TrackRequest(r, type)
  \/ \E r \in Reqs : ClearRequest(r)
  \/ \E r \in Reqs, b \in BOOLEAN : SendRequest(r, b)
  \/ \E r \in Reqs : AccessDone(r)
  \/ \E r \in Reqs : CreateOpen(r)
  \/ \E r \in Reqs : CreateDone(r)
  \/ \E r \in Reqs : ReadFileDone(r)
  \/ \E r \in Reqs : BackupDone(r)
  \/ \E r \in Reqs : RecoverOpen(r)
  \/ \E r \in Reqs : RecoverDone(r)
  \/ \E r \in Reqs : QueuedWriteOpen(r)
  \/ \E r \in Reqs : QueuedWriteDone(r)
  \/ \E r \in Reqs : VerifyDone(r)
  \/ \E r \in Reqs : SendMailDone(r)
  \/ \E r \in Reqs : LogOkDone(r)
  \/ \E r \in Reqs : DispatchBackupDone(r)
  \/ \E r \in Reqs : LogFailDone(r)

\* every clock reading falls in the same millisecond
Spec == Init /\ [][Next]_vars

\* one more request
SpecWide == InitWide /\ [][Next]_vars

\* every fs.writeFile that a queued closure has called eventually completes
SpecFair ==
  /\ Init /\ [][Next]_vars
  /\ \A r \in Reqs : WF_vars(QueuedWriteOpen(r)) /\ WF_vars(QueuedWriteDone(r))

\* the server starts with the mail variables set and no log file or a valid
\* one and admits one more request; the clock advances between steps
InitTimed ==
  /\ Start(NReq + 1)
  /\ credentials = Credentials
  /\ fileExists => (JSONparse(file).ok /\ IsArray(JSONparse(file).val))
NextTimed == Next \/ Tick
SpecTimed == InitTimed /\ [][NextTimed]_vars

\* ---------------------------------------------- dispatch on populated logs
\* logs of 1..MaxLog records whose types repeat with a period of three, or
\* are all the same
ReportTypes == <<"click", "view", "constructor">>
ReportRecord(i, type) ==
  Obj(<< <<"type:", Lit(type)>>,
         <<"timestamp:", Lit(ToString(i))>>,
         <<"data:", Obj(<<>>)>> >>)
ReportLog(n, p) ==
  Arr([i \in 1..n |-> ReportRecord(i, ReportTypes[((i * p) % 3) + 1])])
ReportFiles == {Stringify(ReportLog(n, p)) : n \in 1..MaxLog, p \in 0..2}

\* the server starts on one of these logs, with any of the mail variables
\* set, and admits one request
InitReport ==
  /\ quota = 1
  /\ fileExists = TRUE
  /\ file \in ReportFiles
  /\ backups = <<>>
  /\ isWriting = FALSE
  /\ pendingWrites = <<>>
  /\ enqOrder = <<>>
  /\ pc = [r \in Reqs |-> "idle"]
  /\ kind = [r \in Reqs |-> "none"]
  /\ eventType = [r \in Reqs |-> "none"]
  /\ beacon = [r \in Reqs |-> FALSE]
  /\ rawData = [r \in Reqs |-> <<>>]
  /\ returned = [r \in Reqs |-> <<>>]
  /\ backupPath = [r \in Reqs |-> 0]
  /\ trackingData = [r \in Reqs |-> Undefined]
  /\ resp = [r \in Reqs |-> 0]
  /\ result = [r \in Reqs |-> "none"]
  /\ sentMail = [r \in Reqs |-> <<>>]
  /\ credentials \in SUBSET Credentials
  /\ faults = 0
  /\ solo = [r \in Reqs |-> <<>>]
  /\ afterSend = [r \in Reqs |-> FALSE]
  /\ initialFile = <<file>>
  /\ now = 0
  /\ client = ClientStart

\* ... and that request is a dispatch
NextReport ==
  \/ \E r \in Reqs, b \in BOOLEAN : SendRequest(r, b)
  \/ \E r \in Reqs : AccessDone(r)
  \/ \E r \in Reqs : CreateOpen(r)
  \/ \E r \in Reqs : CreateDone(r)
  \/ \E r \in Reqs : ReadFileDone(r)
  \/ \E r \in Reqs : VerifyDone(r)
  \/ \E r \in Reqs : SendMailDone(r)
  \/ \E r \in Reqs : LogOkDone(r)
  \/ \E r \in Reqs : DispatchBackupDone(r)
  \/ \E r \in Reqs : LogFailDone(r)

SpecReport == InitReport /\ [][NextReport]_vars

\* ------------------------------------------------- reads of a corrupt log
\* a log as the server writes it, and one written without indentation
WrittenExample == Stringify(Arr(<<PriorRecord>>))
CompactExample == <<"[", "{", "a:", "1", "}", ",", "{", "b:", "2", "}", "]">>
NestedExample == <<"[", "{", "a:", "1", "}", ",", "{", "b:", "[", "{", "a:", "1", "}", "]">>

\* what stays behind the end of a text from an older, longer one: its last tokens
Remnants == {<<"]">>, <<"}", "]">>, <<"nl", "]">>, <<"#">>}

\* texts cut off during a write, and texts with trailing content
CutOff(text) == {SubSeq(text, 1, k) : k \in 1..(Len(text) - 1)}
CorruptFiles ==
  CutOff(WrittenExample) \cup CutOff(CompactExample) \cup {NestedExample}
    \cup {text \o tail : text \in {WrittenExample, CompactExample}, tail \in Remnants}

\* the server starts on one of these files with the mail variables set and
\* admits two requests
InitRecovery ==
  /\ quota = 2
  /\ fileExists = TRUE
  /\ file \in CorruptFiles
  /\ backups = <<>>
  /\ isWriting = FALSE
  /\ pendingWrites = <<>>
  /\ enqOrder = <<>>
  /\ pc = [r \in Reqs |-> "idle"]
  /\ kind = [r \in Reqs |-> "none"]
  /\ eventType = [r \in Reqs |-> "none"]
  /\ beacon = [r \in Reqs |-> FALSE]
  /\ rawData = [r \in Reqs |-> <<>>]
  /\ returned = [r \in Reqs |-> <<>>]
  /\ backupPath = [r \in Reqs |-> 0]
  /\ trackingData = [r \in Reqs |-> Undefined]
  /\ resp = [r \in Reqs |-> 0]
  /\ result = [r \in Reqs |-> "none"]
  /\ sentMail = [r \in Reqs |-> <<>>]
  /\ credentials = Credentials
  /\ faults = 0
  /\ solo = [r \in Reqs |-> <<>>]
  /\ afterSend = [r \in Reqs |-> FALSE]
  /\ initialFile = <<file>>
  /\ now = 0
  /\ client = ClientStart

\* ... and both are dispatches
NextRecovery ==
  \/ \E r \in Reqs, b \in BOOLEAN : SendRequest(r, b)
  \/ \E r \in Reqs : AccessDone(r)
  \/ \E r \in Reqs : CreateOpen(r)
  \/ \E r \in Reqs : CreateDone(r)
  \/ \E r \in Reqs : ReadFileDone(r)
  \/ \E r \in Reqs : BackupDone(r)
  \/ \E r \in Reqs : RecoverOpen(r)
  \/ \E r \in Reqs : RecoverDone(r)
  \/ \E r \in Reqs : VerifyDone(r)
  \/ \E r \in Reqs : SendMailDone(r)
  \/ \E r \in Reqs : LogOkDone(r)
  \/ \E r \in Reqs : DispatchBackupDone(r)
  \/ \E r \in Reqs : LogFailDone(r)

SpecRecovery == InitRecovery /\ [][NextRecovery]_vars

\* ------------------------------------------------------------ the client
serverVars == <<fsVars, qVars, reqVars, envVars, histVars>>

\* sendTrackingDataEmail(userEmail, reason) once its axios.post has settled:
\* the catch block logs the error and the function returns, so the promise
\* is resolved whether the request succeeded or failed
SendTrackingDataEmail(outcome) ==
  IF outcome = "error" THEN "resolved" ELSE "resolved"

\* sendTrackingDataAndClear: await sendTrackingDataEmail(...); the clear is
\* commented out
SendTrackingDataAndClear(outcome) == SendTrackingDataEmail(outcome)

\* one more event in the tab
ClientEvent == client.events < MaxEvents

\* setUser(userProfile) after fetchUserProfile
Login ==
  /\ ClientEvent
  /\ ~client.user
  /\ client' = [client EXCEPT !.user = TRUE, !.events = @ + 1]
  /\ UNCHANGED serverVars

\* handleLogout: setUser(null)
Logout ==
  /\ ClientEvent
  /\ client.user
  /\ client' = [client EXCEPT !.user = FALSE, !.events = @ + 1]
  /\ UNCHANGED serverVars

\* a callback of useVisibility, up to the axios.post of sendTrackingDataEmail
\* when a user is signed in
Callback(c, reason) ==
  IF c.user THEN [c EXCEPT !.inflight = Append(@, reason)] ELSE c

\* visibilitychange with document.hidden: onBecomeHidden()
BecomeHidden ==
  /\ ClientEvent
  /\ ~client.hidden
  /\ client' = Callback([client EXCEPT !.hidden = TRUE, !.events = @ + 1], "Tab Hidden")
  /\ UNCHANGED serverVars

\* visibilitychange with the document visible again
BecomeVisible ==
  /\ ClientEvent
  /\ client.hidden
  /\ client' = [client EXCEPT !.hidden = FALSE, !.active = TRUE, !.events = @ + 1]
  /\ UNCHANGED serverVars

\* the inactivity timer fires: onUserInactive()
UserInactive ==
  /\ ClientEvent
  /\ client.active
  /\ client' = Callback([client EXCEPT !.active = FALSE, !.events = @ + 1], "User Inactive")
  /\ UNCHANGED serverVars

\* an interaction resets the timer
UserActive ==
  /\ ClientEvent
  /\ ~client.active
  /\ client' = [client EXCEPT !.active = TRUE, !.events = @ + 1]
  /\ UNCHANGED serverVars

\* the axios.post of the i-th callback in flight settles; the callback's
\* `await sendTrackingDataAndClear(...)` resumes, and its catch block calls
\* BeaconService.sendTrackingEmailBeacon(user.email, reason + ' (Fallback)')
PostSettles(i, outcome) ==
  /\ i \in 1..Len(client.inflight)
  /\ LET reason == client.inflight[i]
         rest == SubSeq(client.inflight, 1, i - 1)
                   \o SubSeq(client.inflight, i + 1, Len(client.inflight))
     IN client' = [client EXCEPT
          !.inflight = rest,
          !.failed = IF outcome = "error" THEN Append(@, reason) ELSE @,
          !.beacons = IF SendTrackingDataAndClear(outcome) = "rejected"
                      THEN Append(@, reason) ELSE @]
  /\ UNCHANGED serverVars

\* the server is not running; the tab sees up to MaxEvents events
InitClient ==
  /\ Start(0)
  /\ ~fileExists
  /\ credentials = Credentials

NextClient ==
  \/ Login
  \/ Logout
  \/ BecomeHidden
  \/ BecomeVisible
  \/ UserInactive
  \/ UserActive
  \/ \E i \in 1..MaxEvents, outcome \in {"ok", "error"} : PostSettles(i, outcome)

SpecClient == InitClient /\ [][NextClient]_vars

TypeOK ==
  /\ isWriting \in BOOLEAN
  /\ \A r \in Reqs : resp[r] \in {0, 200, 202, 500}

\* ------------------------------------------------------------- properties
Settled == \A r \in Reqs : ~InProgress(r)
Arrived == {r \in Reqs : pc[r] # "idle"}
Executing == {r \in Reqs : pc[r] \in {"writeIssued", "writeOpened"}}
DirectWriting == {r \in Reqs : pc[r] \in {"create", "creating", "recover", "recovering"}}
Queued == {pendingWrites[i] : i \in 1..Len(pendingWrites)}
EnqIndex(r) == CHOOSE i \in 1..Len(enqOrder) : enqOrder[i] = r
Enqueued == {enqOrder[i] : i \in 1..Len(enqOrder)}

\* e is the record that the track request r pushed (whatever its timestamp)
IsRecordOf(e, r) ==
  /\ IsObject(e)
  /\ Len(e[2]) = 3
  /\ e[2][1] = <<"type:", Lit(eventType[r])>>
  /\ e[2][3] = <<"data:", Obj(<< <<"id:", Lit(ToString(r))>> >>)>>

IsNewRecord(e) == \E r \in Reqs : kind[r] = "track" /\ IsRecordOf(e, r)
NewRecords(v) == SelectSeq(v[2], IsNewRecord)
InArray(v, r) == IsArray(v) /\ \E i \in 1..Len(v[2]) : IsRecordOf(v[2][i], r)
InFile(r) == JSONparse(file).ok /\ InArray(JSONparse(file).val, r)
InDigest(r) ==
  \E s \in Reqs : sentMail[s] # <<>> /\ InArray(JSONparse(sentMail[s][1].attachment).val, r)

\* C1: once every append of a batch of concurrent appends has been answered
\* with success and nothing is in progress, the file holds exactly one new
\* record per append, each with its payload, in the order of enqueuing.
C1_NoLostAppend ==
  (/\ Settled
   /\ faults = 0
   /\ Arrived # {}
   /\ \A r \in Arrived : kind[r] = "track" /\ resp[r] = 200)
  => /\ JSONparse(file).ok
     /\ IsArray(JSONparse(file).val)
     /\ LET new == NewRecords(JSONparse(file).val) IN
        /\ Len(new) = Len(enqOrder)
        /\ \A i \in 1..Len(new) : IsRecordOf(new[i], enqOrder[i])

\* C2: a write that readTrackingData issues itself (file creation, recovery
\* overwrite) is never in flight while a queued write is executing or pending.
C2_WritesOnlyThroughQueue ==
  DirectWriting # {} => Executing = {} /\ pendingWrites = <<>>

\* the text starts with "[", does not parse, and holds a complete record
TruncatedAfterRecord(data) ==
  /\ StartsWithBracket(data)
  /\ ~JSONparse(data).ok
  /\ ParsedObjects(BraceMatches(data, 1)) # <<>>

\* C3: when the text read was truncated after at least one complete record,
\* a backup holds that text, and the recovery returns, and writes back, the
\* records found by brace matching.
C3_TruncatedFileSalvaged ==
  \A r \in Reqs :
    (pc[r] = "recovering" /\ TruncatedAfterRecord(rawData[r]))
    => /\ \E path \in DOMAIN backups : backups[path] = rawData[r]
       /\ Recovered(r) = Arr(ParsedObjects(BraceMatches(rawData[r], 1)))
       /\ RecoveryText(r) = Stringify(Arr(ParsedObjects(BraceMatches(rawData[r], 1))))

\* C4: an append that read valid JSON that is not an array is answered with
\* success.
C4_NonArrayIsNotAnError ==
  \A r \in Reqs :
    (kind[r] = "track" /\ pc[r] = "done" /\ ~IsArray(trackingData[r]))
    => resp[r] = 200

\* C5: with a log that held a record at the start, one append, a dispatch
\* that delivered the log, and every clear issued after a dispatch reported
\* success, the record of the acknowledged append is in the file or in a
\* delivered digest once nothing is in progress.
C5_NoSilentLoss ==
  \A t \in Reqs :
    (/\ Settled
     /\ faults = 0
     /\ kind[t] = "track"
     /\ resp[t] = 200
     /\ \A r \in Reqs \ {t} : kind[r] # "track"
     /\ \A c \in Reqs : kind[c] = "clear" => afterSend[c]
     /\ \E s \in Reqs :
          /\ sentMail[s] # <<>>
          /\ JSONparse(sentMail[s][1].attachment).val[2][1] = PriorRecord)
    => InFile(t) \/ InDigest(t)

\* C6: at most one queued write executes, isWriting is true exactly then, and
\* the writes submitted and neither executing nor settled are those in
\* pendingWrites.
C6_SingleWriter ==
  /\ Cardinality(Executing) <= 1
  /\ isWriting <=> Executing # {}
  /\ \A r \in Reqs : pc[r] = "queued" <=> r \in Queued
  /\ Executing \cap Queued = {}

C6_Witness == Cardinality(Executing) = 1 /\ Len(pendingWrites) = 1

\* C7: once the queue has drained, and while no other write has the file
\* open, the file holds the array of the last write enqueued.
C7_LastEnqueuedWins ==
  (/\ ~isWriting /\ pendingWrites = <<>> /\ enqOrder # <<>> /\ faults = 0
   /\ \A r \in Reqs : pc[r] \notin {"creating", "recovering"})
  => file = Stringify(TrackingArray(trackingData[enqOrder[Len(enqOrder)]]))

\* the ordering half of C7: a queued write starts only when every write
\* enqueued before it has settled
C7_FifoOrder ==
  [][\A r \in Reqs :
       (pc[r] # "writeIssued" /\ pc'[r] = "writeIssued")
       => \A i \in 1..Len(enqOrder') :
            (\E j \in (i + 1)..Len(enqOrder') : enqOrder'[j] = r)
            => pc'[enqOrder'[i]] = "done"]_vars

\* C8: when a queued write fails, the lock is released in the same step and
\* the write at the head of pendingWrites starts; no waiting write is dropped.
C8_FailureDoesNotBlock ==
  [][\A r \in Reqs :
       (pc[r] = "writeIssued" /\ pc'[r] = "done" /\ resp'[r] = 500)
       => /\ IF pendingWrites = <<>>
             THEN ~isWriting'
             ELSE /\ isWriting'
                  /\ pc'[Head(pendingWrites)] = "writeIssued"
                  /\ pendingWrites' = Tail(pendingWrites)
          /\ \A q \in Reqs : pc[q] = "queued" => pc'[q] \in {"queued", "writeIssued"}]_vars

C8_Witness ==
  \E r, q \in Enqueued :
    /\ EnqIndex(r) < EnqIndex(q)
    /\ resp[r] = 500
    /\ pc[q] = "done"
    /\ resp[q] = 200

\* C9: an append is answered in no step but one in which it throws before
\* enqueuing or its own physical write ends; it is answered 200 only by the
\* step that finishes its write with its array in the file, and 500 by the
\* step in which its write fails.
C9_AnsweredAfterWrite ==
  [][\A r \in Reqs :
       (kind[r] = "track" /\ resp[r] = 0 /\ resp'[r] # 0)
       => /\ pc'[r] = "done"
          /\ r \notin {pendingWrites'[i] : i \in 1..Len(pendingWrites')}
          /\ resp'[r] = 200 =>
               /\ pc[r] = "writeOpened"
               /\ file' = Stringify(TrackingArray(trackingData[r]))
          /\ pc[r] = "writeIssued" => resp'[r] = 500
          /\ pc[r] # "queued"]_vars

C9_Witness ==
  \E r, q \in Enqueued :
    /\ kind[r] = "track" /\ resp[r] = 200
    /\ kind[q] = "track" /\ resp[q] = 500

\* C10: an append that ran alone from arrival to answer, with no failed
\* call, on a file holding the array A, leaves the file holding A followed by
\* its own record.
C10_AppendKeepsPrefix ==
  [][\A r \in Reqs :
       (/\ kind[r] = "track"
        /\ solo[r] # <<>>
        /\ faults' = 0
        /\ pc[r] = "writeOpened" /\ pc'[r] = "done"
        /\ JSONparse(solo[r][1]).ok
        /\ IsArray(JSONparse(solo[r][1]).val))
       => LET A == JSONparse(solo[r][1]).val[2]
              B == JSONparse(file')
          IN /\ B.ok
             /\ IsArray(B.val)
             /\ Len(B.val[2]) = Len(A) + 1
             /\ SubSeq(B.val[2], 1, Len(A)) = A
             /\ IsRecordOf(B.val[2][Len(A) + 1], r)]_vars

C10_Witness ==
  \E r \in Reqs :
    /\ kind[r] = "track" /\ pc[r] = "done" /\ resp[r] = 200
    /\ solo[r] = <<Stringify(Arr(<<PriorRecord>>))>>
    /\ file = Stringify(Arr(<<PriorRecord, Record(r, eventType[r], now)>>))

\* v1 holds every element of v0
KeepsAll(v0, v1) ==
  \A i \in 1..Len(v0[2]) : \E j \in 1..Len(v1[2]) : v1[2][j] = v0[2][i]

\* C11: the array that an append is about to write holds every record that
\* the file holds at that moment, whatever the interleaving and whichever call
\* of its own read failed; only a clear writes an array without them.
C11_AppendOnly ==
  \A r \in Reqs :
    (/\ kind[r] = "track"
     /\ pc[r] = "writeIssued"
     /\ JSONparse(file).ok
     /\ IsArray(JSONparse(file).val))
    => KeepsAll(JSONparse(file).val, TrackingArray(trackingData[r]))

\* a write has the file open
WriteInFlight == \E r \in Reqs : pc[r] \in {"creating", "recovering", "writeOpened"}

\* the file was absent or held a JSON array when the server started
StartedAsArray ==
  initialFile # <<>> =>
    JSONparse(initialFile[1]).ok /\ IsArray(JSONparse(initialFile[1]).val)

\* C12: started on an absent file or on a JSON array, the file, if it exists
\* and no write is queued, executing or open, parses as a JSON array (also
\* when no call has failed).
C12_FileIsArray ==
  (/\ StartedAsArray /\ faults = 0 /\ fileExists
   /\ ~WriteInFlight /\ ~isWriting /\ pendingWrites = <<>>)
  => JSONparse(file).ok /\ IsArray(JSONparse(file).val)

\* positions inside readTrackingData
ReadPcs == {"access", "create", "creating", "readFile", "backup", "recover", "recovering"}

\* C13 as stated: every step in which a request leaves readTrackingData hands
\* it a returned value, that value is a sequence, and it is the empty
\* sequence when the step is the failure of one of its file-system calls.
C13_ReadReturnsSequence ==
  [][\A r \in Reqs :
       (pc[r] \in ReadPcs /\ pc'[r] \notin ReadPcs)
       => /\ returned'[r] # <<>>
          /\ IsArray(returned'[r][1])
          /\ faults' > faults => returned'[r] = <<EmptyArray>>]_vars

\* C13 amended: every step in which a request leaves readTrackingData hands
\* it a returned value; the value is a sequence unless the file parsed as
\* JSON that is not an array, which is returned as parsed; it is the empty
\* sequence when the step is the failure of one of its file-system calls.
C13_ReadNeverRaises ==
  [][\A r \in Reqs :
       (pc[r] \in ReadPcs /\ pc'[r] \notin ReadPcs)
       => /\ returned'[r] # <<>>
          /\ \/ IsArray(returned'[r][1])
             \/ /\ pc[r] = "readFile"
                /\ JSONparse(file).ok
                /\ returned'[r][1] = JSONparse(file).val
          /\ faults' > faults => returned'[r] = <<EmptyArray>>]_vars

\* the only request read a populated log, one of its calls failed, and it got []
C13_Witness ==
  /\ initialFile = <<Stringify(Arr(<<PriorRecord>>))>>
  /\ faults = 1
  /\ \E r \in Reqs :
       /\ returned[r] = <<EmptyArray>>
       /\ \A q \in Reqs \ {r} : pc[q] = "idle"

\* C14: a request that runs alone, with no failed call, and finds no log
\* file, gets the empty sequence from readTrackingData, and the file then
\* exists and holds [].
C14_AbsentFileCreated ==
  [][\A r \in Reqs :
       (/\ solo[r] = << <<"absent">> >>
        /\ faults' = 0
        /\ pc[r] \in ReadPcs /\ pc'[r] \notin ReadPcs)
       => /\ returned'[r] = <<EmptyArray>>
          /\ fileExists'
          /\ file' = <<"[", "]">>]_vars

C14_Witness ==
  \E r \in Reqs :
    /\ solo[r] = << <<"absent">> >>
    /\ faults = 0
    /\ kind[r] = "send" /\ pc[r] = "done"
    /\ returned[r] = <<EmptyArray>>
    /\ fileExists /\ file = <<"[", "]">>

\* the text does not parse, none of its {...} substrings parses as an object,
\* and none of its prefixes that end in "}]" parses
Unrecoverable(data) ==
  /\ ~JSONparse(data).ok
  /\ ParsedObjects(BraceMatches(data, 1)) = <<>>
  /\ \A p \in CloseAt(data) : ~JSONparse(SubSeq(data, 1, p + 1)).ok

\* C15: a request that runs alone, with no failed call, on a file whose text
\* is not JSON and holds no recoverable record, gets the empty sequence from
\* readTrackingData, a backup holds that text, and the file holds [].
C15_GarbageReset ==
  [][\A r \in Reqs :
       (/\ solo[r] # <<>>
        /\ faults' = 0
        /\ pc[r] = "recovering" /\ pc'[r] # "recovering"
        /\ Unrecoverable(rawData[r]))
       => /\ returned'[r] = <<EmptyArray>>
          /\ \E path \in DOMAIN backups' : backups'[path] = rawData[r]
          /\ file' = <<"[", "]">>]_vars

C15_Witness ==
  \E r \in Reqs :
    /\ solo[r] = <<Garbage>>
    /\ faults = 0
    /\ pc[r] = "done"
    /\ returned[r] = <<EmptyArray>>
    /\ \E path \in DOMAIN backups : backups[path] = Garbage
    /\ file = <<"[", "]">>

RECURSIVE SumCounts(_)
SumCounts(entries) ==
  IF entries = <<>> THEN 0 ELSE entries[1][2] + SumCounts(Tail(entries))

\* C16: the mail sent for a non-empty log of N records is the only one sent
\* for the request; its per-type counts are numbers that sum to N, its
\* preview is the last min(N, 10) records that were read, in their order,
\* and its attachment is the text of the whole array that was read.
C16_ReportOfLog ==
  \A r \in Reqs :
    sentMail[r] # <<>> =>
      LET m == sentMail[r][1]
          A == returned[r][1][2]
          N == Len(A)
          k == IF N < 10 THEN N ELSE 10
      IN /\ Len(sentMail[r]) = 1
         /\ N > 0
         /\ \A i \in 1..Len(m.eventTypes) : m.eventTypes[i][3]
         /\ SumCounts(m.eventTypes) = N
         /\ m.recentEvents = SubSeq(A, N - k + 1, N)
         /\ m.attachment = Stringify(Arr(A))

\* C17: a dispatch whose read gave the empty sequence returns a result with
\* success = true and a record count of 0, and no mail has been sent for it.
C17_EmptyLogDispatch ==
  \A r \in Reqs :
    (kind[r] = "send" /\ pc[r] = "done" /\ returned[r] = <<EmptyArray>>)
    => /\ result[r] = "empty"
       /\ ResultValue(r).success
       /\ "eventsCount" \in DOMAIN ResultValue(r)
       /\ ResultValue(r).eventsCount = 0
       /\ sentMail[r] = <<>>

\* C18: while a mail variable is missing, a dispatch has ended in the step
\* in which it arrived, with the configuration-error object (a returned
\* value whose success is false), and it has read nothing, sent nothing and
\* left the log file and its siblings as they were.
C18_ConfigError ==
  \A r \in Reqs :
    (kind[r] = "send" /\ credentials # Credentials)
    => /\ pc[r] = "done"
       /\ result[r] = "config"
       /\ ~ResultValue(r).success
       /\ returned[r] = <<>>
       /\ sentMail[r] = <<>>
       /\ backups = <<>>
       /\ file = initialFile[1]

C18_Witness ==
  \E r \in Reqs :
    /\ kind[r] = "send" /\ pc[r] = "done"
    /\ credentials = Credentials \ {"EMAIL_RECIPIENT"}

\* the answer says that the digest was sent
ReportedSent(r) ==
  /\ resp[r] = 200
  /\ SendResponseBody(r).message = "Tracking data sent via email"

\* C19: a dispatch of a non-beacon request that ended with the
\* configuration error or with a thrown failure is not answered with the
\* success response 'Tracking data sent via email'.
C19_NeverReportedSent ==
  \A r \in Reqs :
    (/\ kind[r] = "send" /\ ~beacon[r] /\ pc[r] = "done"
     /\ result[r] \in {"config", "threw"})
    => ~ReportedSent(r)

\* the dispatch read a non-empty array and went on to the transport, it is in
\* its catch block or has ended, and the transport accepted no mail for it:
\* transporter.verify or transporter.sendMail threw
TransportFailed(r) ==
  /\ kind[r] = "send"
  /\ pc[r] \in {"logFail", "done"}
  /\ returned[r] # <<>>
  /\ IsArray(returned[r][1])
  /\ Len(returned[r][1][2]) > 0
  /\ sentMail[r] = <<>>

\* C20: a dispatch whose transport failed returns no result; once it has
\* ended it has thrown, and the endpoint has answered 500 unless it had
\* already answered 202 to a beacon.
C20_TransportFailurePropagates ==
  \A r \in Reqs :
    TransportFailed(r)
    => /\ result[r] \in {"none", "threw"}
       /\ pc[r] = "done"
          => /\ result[r] = "threw"
             /\ resp[r] = (IF beacon[r] THEN 202 ELSE 500)

C20_Witness ==
  \E r \in Reqs :
    /\ TransportFailed(r)
    /\ pc[r] = "done"
    /\ ~beacon[r]
    /\ resp[r] = 500

\* C21: a dispatch for which the transport accepted the mail and which has
\* ended returned the delivered result, whose count is the number of records
\* mailed, and a timestamped copy of the log file exists.
C21_DeliveredEndsInSuccess ==
  \A r \in Reqs :
    (kind[r] = "send" /\ sentMail[r] # <<>> /\ pc[r] = "done")
    => /\ result[r] = "sent"
       /\ ResultValue(r).success
       /\ ResultValue(r).eventsCount = sentMail[r][1].eventsCount
       /\ \E path \in DOMAIN backups : path[1] = "sent"

\* C22: a dispatch that ran alone from arrival to end, on a log file that
\* held a valid array, leaves the file holding that same text, whether the
\* mail was delivered, failed or was skipped.
C22_DispatchLeavesLog ==
  \A r \in Reqs :
    (/\ kind[r] = "send" /\ pc[r] = "done"
     /\ solo[r] # <<>>
     /\ JSONparse(solo[r][1]).ok
     /\ IsArray(JSONparse(solo[r][1]).val))
    => fileExists /\ file = solo[r][1]

\* C23: a clear is a write of [] through the queue: once its write has
\* completed and no write was enqueued after it, the log file holds [].
C23_ClearLeavesEmptyArray ==
  \A r \in Reqs :
    (/\ kind[r] = "clear" /\ pc[r] = "done" /\ resp[r] = 200
     /\ enqOrder[Len(enqOrder)] = r)
    => fileExists /\ file = <<"[", "]">>

\* C24: when fs.readFile of a read settles while a queued write is in flight
\* (and no unqueued write is), the text it read is the complete text from
\* before the write or the complete text being written, never an empty one
\* (in runs that start with a log file holding valid JSON).
C24_ReadSeesCompleteContent ==
  [][\A r \in Reqs :
       (/\ initialFile # <<>> /\ JSONparse(initialFile[1]).ok
        /\ pc[r] = "readFile" /\ pc'[r] # "readFile" /\ faults' = faults
        /\ \E w \in Reqs : pc[w] = "writeOpened"
        /\ \A x \in Reqs : pc[x] \notin {"creating", "recovering"})
       => ~TrimIsEmpty(file)]_vars

\* C25: from the moment a read that detected corruption has made its backup,
\* while it overwrites the log file, some backup file holds exactly the
\* corrupt text that read detected, also when another read detects the
\* corruption in the same millisecond.
C25_BackupHoldsCorruptContent ==
  \A r \in Reqs :
    pc[r] \in {"recover", "recovering"}
    => \E path \in DOMAIN backups :
         path[1] = "backup" /\ backups[path] = rawData[r]

\* the complete elements at the top level of the array that a text begins
RECURSIVE CompleteFrom(_, _, _)
CompleteFrom(toks, i, acc) ==
  LET e == ParseValue(toks, i) IN
  IF ~e.ok THEN acc
  ELSE LET k == SkipWs(toks, e.next) IN
       IF k <= Len(toks) /\ toks[k] = ","
       THEN CompleteFrom(toks, k + 1, acc \cup {e.val})
       ELSE acc \cup {e.val}
CompleteRecords(toks) ==
  IF StartsWithBracket(toks) THEN CompleteFrom(toks, 2, {}) ELSE {}

\* C26: every record that a read of the corrupt log returned, and every
\* record in the file once a recovery has written it back, is a record that
\* stood complete in the corrupt text.
C26_RecoveryNeverGuesses ==
  /\ \A r \in Reqs :
       (returned[r] # <<>> /\ IsArray(returned[r][1]))
       => \A i \in 1..Len(returned[r][1][2]) :
            returned[r][1][2][i] \in CompleteRecords(initialFile[1])
  /\ (file # initialFile[1] /\ JSONparse(file).ok /\ IsArray(JSONparse(file).val))
     => \A i \in 1..Len(JSONparse(file).val[2]) :
          JSONparse(file).val[2][i] \in CompleteRecords(initialFile[1])

\* C27: whenever pendingWrites is not empty isWriting is true; a closure is
\* started only out of the queue and leaves it when started, and a write
\* that settled stays settled (each is executed and settled once); and every
\* enqueued write is eventually executed and its promise settled.
C27_NoWriteStranded ==
  /\ [](pendingWrites # <<>> => isWriting)
  /\ [][\A r \in Reqs :
          /\ (pc'[r] = "writeIssued" /\ pc[r] # "writeIssued")
               => (pc[r] = "queued" \/ (pc[r] = "idle" /\ kind'[r] = "clear")
                                   \/ (pc[r] \in ReadPcs /\ kind[r] = "track"))
          /\ pc'[r] = "writeIssued"
               => \A i \in 1..Len(pendingWrites') : pendingWrites'[i] # r
          /\ pc[r] = "done" => pc'[r] = "done" /\ resp'[r] = resp[r]]_vars
  /\ \A r \in Reqs :
       (pc[r] \in {"queued", "writeIssued", "writeOpened"})
         ~> (pc[r] = "done" /\ resp[r] \in {200, 500})

\* a write waits in the queue while the closure of another is between the
\* open and the end of its fs.writeFile
C27_Witness ==
  /\ pendingWrites # <<>>
  /\ isWriting
  /\ \E r \in Reqs : pc[r] = "writeOpened"

\* the clock reading in the timestamp of a record pushed by /api/track
TimeOf(e) == CHOOSE t \in 0..(MaxTime + 1) : e[2][2] = <<"timestamp:", Lit(ToString(t))>>

\* C28: whenever the log file holds a valid array, the records in it that were
\* appended by requests stand in the order in which their writes were
\* enqueued, and their timestamps do not decrease.
C28_RecordsInEnqueueOrder ==
  (fileExists /\ JSONparse(file).ok /\ IsArray(JSONparse(file).val))
  => LET v == JSONparse(file).val[2] IN
     \A i, j \in 1..Len(v) : \A a, b \in Reqs :
       (/\ i < j
        /\ kind[a] = "track" /\ IsRecordOf(v[i], a)
        /\ kind[b] = "track" /\ IsRecordOf(v[j], b))
       => /\ a \in Enqueued /\ b \in Enqueued
          /\ EnqIndex(a) < EnqIndex(b)
          /\ TimeOf(v[i]) <= TimeOf(v[j])

\* the file holds the records of two appends, stamped at different times
C28_Witness ==
  /\ fileExists /\ JSONparse(file).ok /\ IsArray(JSONparse(file).val)
  /\ LET v == JSONparse(file).val[2] IN
     \E i, j \in 1..Len(v) : \E a, b \in Reqs :
       /\ i < j
       /\ kind[a] = "track" /\ IsRecordOf(v[i], a)
       /\ kind[b] = "track" /\ IsRecordOf(v[j], b)
       /\ TimeOf(v[i]) < TimeOf(v[j])

\* request a was the only one to run, with no failed call, on a log that did
\* not parse, and has ended; request b arrived after that and has run alone
RecoveredThenRead(a, b) ==
  /\ a < b
  /\ faults = 0
  /\ pc[a] = "done" /\ returned[a] # <<>>
  /\ solo[b] # <<>>
  /\ \A x \in Reqs \ {a, b} : pc[x] = "idle"
  /\ initialFile # <<>>
  /\ ~TrimIsEmpty(initialFile[1]) /\ ~JSONparse(initialFile[1]).ok

\* C29: a read that directly follows a read which recovered a corrupt log
\* does not enter the recovery, so it makes no backup and leaves the file as
\* it found it, the backup of the first read still holds the corrupt text,
\* and it returns the array the first read returned.
C29_RecoveryIdempotent ==
  \A a, b \in Reqs :
    RecoveredThenRead(a, b)
    => /\ pc[b] \notin {"backup", "recover", "recovering"}
       /\ fileExists /\ file = solo[b][1]
       /\ \E path \in DOMAIN backups :
            path[1] = "backup" /\ backups[path] = initialFile[1]
       /\ returned[b] # <<>> => returned[b] = returned[a]

\* the second read has returned and the array is not empty
C29_Witness ==
  \E a, b \in Reqs :
    /\ RecoveredThenRead(a, b)
    /\ returned[b] # <<>>
    /\ returned[a][1][2] # <<>>

\* C30: for every digest request that a callback of the tab sent while a user
\* was signed in and that failed, the tab has sent the digest request through
\* the Beacon API for the same reason.
C30_BeaconFallback ==
  \A i \in 1..Len(client.failed) :
    /\ i <= Len(client.beacons)
    /\ client.beacons[i] = client.failed[i]

====
